---- MODULE Spec2Model ----
(***************************************************************************)
(* The match / innings / delivery state engine of the CricClubs back end:  *)
(* toss resolution (crud.update_match_toss behind main.record_toss) and    *)
(* delivery recording (crud.record_delivery behind main.record_delivery),  *)
(* over the rows of models.Match, models.Inning and models.Delivery.       *)
(*                                                                         *)
(* One match row (id TheMatch) is modelled.  Spec applies whole requests   *)
(* one after the other; SpecConc lets two request handlers, each with a    *)
(* database session of its own, interleave their reads and commits.        *)
(***************************************************************************)
EXTENDS Integers, FiniteSets, Sequences, TLC

\* ------------------------------------------------------------ bounds
\* Largest total_runs an inning is driven to.
MaxRuns == 1
\* Most legal deliveries per inning of a scorer who follows no order.
MaxBalls == 2
\* Requests the two concurrent handlers serve between them in SpecConc.
MaxRequests == 3

\* ------------------------------------------------- program constants
WicketLimit == 10
OverLimit == 20
BallsPerOver == 6
ExtraPenalty == 1
\* A NULL foreign key / an unset Optional id.
None == 0

\* The match row under study and its two teams (team1_id # team2_id).
TheMatch == 1
MatchIds == {TheMatch, 2}
Team1 == 1
Team2 == 2
\* Team ids a toss request may carry: the two teams and a stranger.
TeamIds == {Team1, Team2, 3}
\* Inning ids a delivery request may carry.
InningIds == 1 .. 3

SCHEDULED == "Scheduled"
LIVE == "Live"
COMPLETED == "Completed"
ABANDONED == "Abandoned"
MatchStatus == {SCHEDULED, LIVE, COMPLETED, ABANDONED}

BAT == "Bat"
FIELD == "Field"
TossDecision == {BAT, FIELD}

\* schemas.TossData
TossData == [toss_winner_id : TeamIds, decision : TossDecision]

\* schemas.DeliveryCreate (batsman, bowler and wicket_type are copied to the
\* Delivery row and never read by the engine).
DeliveryCreate ==
    [inning_id : InningIds, runs_scored : 0 .. 1,
     is_wicket : BOOLEAN, is_extra : BOOLEAN]

VARIABLES
    match,       \* the matches row
    innings,     \* the innings table: id -> row
    deliveries,  \* the deliveries table: inning id -> number of rows
    response,    \* what the last request answered
    scoring,     \* how the scorer sends deliveries, see ScoringModes
    sessions,    \* SpecConc: each handler's session (position, request, loaded rows)
    requests,    \* SpecConc: the requests begun so far, in order
    delivery_log \* SpecLog: the rows of the deliveries table, in order of id

vars ==
    <<match, innings, deliveries, response, scoring, sessions, requests,
      delivery_log>>

\* ------------------------------------------------------------ tables
\* models.Match as created by crud.create_match (status defaults to Scheduled).
NewMatch ==
    [status |-> SCHEDULED, team1_id |-> Team1, team2_id |-> Team2,
     toss_winner_id |-> None, toss_decision |-> "None", winner_id |-> None]

\* models.Inning(match_id, batting_team_id, bowling_team_id) with column defaults.
NewInning(match_id, batting_team_id, bowling_team_id) ==
    [match_id |-> match_id, batting_team_id |-> batting_team_id,
     bowling_team_id |-> bowling_team_id, total_runs |-> 0, wickets |-> 0,
     overs_bowled |-> 0, balls_bowled |-> 0, is_completed |-> FALSE]

\* The database as one value.
DB == [match |-> match, innings |-> innings, deliveries |-> deliveries]

\* match.innings: the ids of the innings rows of a match.
MatchInnings(db, match_id) ==
    {i \in DOMAIN db.innings : db.innings[i].match_id = match_id}

\* The autoincrement primary key of the next innings row.
NextInningId(db) == Cardinality(DOMAIN db.innings) + 1

\* min over a non-empty set of ids: all_innings[0].id after sorted(..., key=id).
MinId(S) == CHOOSE i \in S : \A j \in S : i <= j

\* --------------------------------------------------- Toss Resolver
\* crud.update_match_toss, lines 84-91: who bats first.
TossLoser(m, toss_data) ==
    IF toss_data.toss_winner_id = m.team1_id THEN m.team2_id ELSE m.team1_id

FirstBattingTeamAlwaysWinner(m, toss_data) == toss_data.toss_winner_id

FirstBattingTeam(m, toss_data) ==
    IF toss_data.decision = BAT
    THEN toss_data.toss_winner_id
    ELSE TossLoser(m, toss_data)

FirstBowlingTeam(m, toss_data) ==
    IF toss_data.decision = BAT
    THEN TossLoser(m, toss_data)
    ELSE toss_data.toss_winner_id

\* Lines 79-96: the rows a toss writes at its commit, given the ids the
\* database hands to the two inserted innings rows.
TossWrites(db, match_id, toss_data, id1) ==
    LET bat == FirstBattingTeam(db.match, toss_data)
        bowl == FirstBowlingTeam(db.match, toss_data)
    IN  [match |-> [db.match EXCEPT !.toss_winner_id = toss_data.toss_winner_id,
                                    !.toss_decision = toss_data.decision],
         innings |-> db.innings @@ (id1 :> NewInning(match_id, bat, bowl))
                                @@ (id1 + 1 :> NewInning(match_id, bowl, bat)),
         deliveries |-> db.deliveries @@ (id1 :> 0) @@ (id1 + 1 :> 0)]

TossGuardOff(db, match_id) == match_id # TheMatch

\* Lines 71-77: no such match, or innings already exist.
TossRefused(db, match_id) ==
    \/ match_id # TheMatch
    \/ MatchInnings(db, match_id) # {}

\* crud.update_match_toss as one transaction: [db, ret].
UpdateMatchToss(db, match_id, toss_data) ==
    IF TossRefused(db, match_id)
    THEN [db |-> db, ret |-> "None"]
    ELSE [db |-> TossWrites(db, match_id, toss_data, NextInningId(db)),
          ret |-> "Match"]

\* main.record_toss: 404 for an unknown match, 400 for a toss winner that is
\* not one of the two teams, else what crud.update_match_toss returns.
RecordTossEndpoint(db, match_id, toss_data) ==
    IF match_id # TheMatch
    THEN [db |-> db, ret |-> "HTTP 404"]
    ELSE IF toss_data.toss_winner_id \notin {db.match.team1_id, db.match.team2_id}
    THEN [db |-> db, ret |-> "HTTP 400"]
    ELSE UpdateMatchToss(db, match_id, toss_data)

\* ----------------------------------------------- Delivery Processor
RejectedIgnoringInningFlag(db, match_id, delivery) ==
    \/ delivery.inning_id \notin DOMAIN db.innings
    \/ db.innings[delivery.inning_id].match_id # match_id
    \/ db.match.status = COMPLETED

\* The status of the match is not looked at.
RejectedIgnoringMatchStatus(db, match_id, delivery) ==
    \/ delivery.inning_id \notin DOMAIN db.innings
    \/ db.innings[delivery.inning_id].match_id # match_id
    \/ db.innings[delivery.inning_id].is_completed

\* crud.record_delivery, lines 110-118: the request is refused when the inning
\* is missing or of another match, or the match or the inning is completed.
DeliveryRejected(db, match_id, delivery) ==
    \/ delivery.inning_id \notin DOMAIN db.innings
    \/ db.innings[delivery.inning_id].match_id # match_id
    \/ db.match.status = COMPLETED
    \/ db.innings[delivery.inning_id].is_completed

\* Every delivery, wides and no-balls included, counts as a ball of the over.
ApplyScoreExtrasAreBalls(inning, delivery) ==
    LET balls == inning.balls_bowled + 1
        over == (balls = BallsPerOver)
    IN  [inning EXCEPT
            !.total_runs = @ + delivery.runs_scored
                             + (IF delivery.is_extra THEN ExtraPenalty ELSE 0),
            !.wickets = IF delivery.is_wicket THEN @ + 1 ELSE @,
            !.overs_bowled = IF over THEN @ + 1 ELSE @,
            !.balls_bowled = IF over THEN 0 ELSE balls]

\* The penalty run of an extra is not added.
ApplyScoreNoPenalty(inning, delivery) ==
    LET balls == IF delivery.is_extra
                 THEN inning.balls_bowled
                 ELSE inning.balls_bowled + 1
        over == ~delivery.is_extra /\ balls = BallsPerOver
    IN  [inning EXCEPT
            !.total_runs = @ + delivery.runs_scored,
            !.wickets = IF delivery.is_wicket THEN @ + 1 ELSE @,
            !.overs_bowled = IF over THEN @ + 1 ELSE @,
            !.balls_bowled = IF over THEN 0 ELSE balls]

\* Lines 133-145: runs, extras, wickets, balls and overs.
ApplyScore(inning, delivery) ==
    LET balls == IF delivery.is_extra
                 THEN inning.balls_bowled
                 ELSE inning.balls_bowled + 1
        over == ~delivery.is_extra /\ balls = BallsPerOver
    IN  [inning EXCEPT
            !.total_runs = @ + delivery.runs_scored
                             + (IF delivery.is_extra THEN ExtraPenalty ELSE 0),
            !.wickets = IF delivery.is_wicket THEN @ + 1 ELSE @,
            !.overs_bowled = IF over THEN @ + 1 ELSE @,
            !.balls_bowled = IF over THEN 0 ELSE balls]

\* The status is left as it is.
MarkLiveNever(m) == m

\* Lines 148-149.
MarkLive(m) == IF m.status = SCHEDULED THEN [m EXCEPT !.status = LIVE] ELSE m

\* ---------------------------------------------- Completion Evaluator
\* The over limit is not looked at.
NaturalEndWicketsOnly(inning) == inning.wickets >= WicketLimit

\* Line 153.
NaturalEnd(inning) ==
    (inning.wickets >= WicketLimit) \/ (inning.overs_bowled >= OverLimit)

ChaseBeyondTarget(inning, first_inning_score) ==
    inning.total_runs > first_inning_score + 1

ChaseAtLevelScores(inning, first_inning_score) ==
    inning.total_runs >= first_inning_score

\* Line 162.
ChaseComplete(inning, first_inning_score) ==
    inning.total_runs > first_inning_score

FinalWinnerTieToBowlers(inning, first_inning_score, winner_id) ==
    IF inning.total_runs > first_inning_score
    THEN inning.batting_team_id
    ELSE inning.bowling_team_id

FinalWinnerBattingSide(inning, first_inning_score, winner_id) ==
    IF inning.total_runs > first_inning_score
    THEN inning.batting_team_id
    ELSE IF first_inning_score > inning.total_runs
    THEN inning.batting_team_id
    ELSE winner_id

\* Lines 171-176: the comparison at the end of the second inning.
FinalWinner(inning, first_inning_score, winner_id) ==
    IF inning.total_runs > first_inning_score
    THEN inning.batting_team_id
    ELSE IF first_inning_score > inning.total_runs
    THEN inning.bowling_team_id
    ELSE winner_id

\* Every inning is taken for innings #1.
IsFirstInningAlways(inning_id, all_innings) == TRUE

\* No inning is taken for innings #1.
IsFirstInningNever(inning_id, all_innings) == FALSE

\* Lines 156-157: innings #1 is the inning of the lowest id.
IsFirstInning(inning_id, all_innings) ==
    inning_id = MinId(DOMAIN all_innings)

\* Lines 153-177 on the session's objects: `inning` is the scored inning,
\* `m` its match, `all_innings` the rows of match.innings as the session
\* holds them (the scored inning among them).  Gives [inning, match].
CompletionEvaluator(inning_id, inning, m, all_innings) ==
    LET first_id == MinId(DOMAIN all_innings)
        is_first_inning == IsFirstInning(inning_id, all_innings)
        first_inning_score == all_innings[first_id].total_runs
        chase == ~is_first_inning /\ ChaseComplete(inning, first_inning_score)
        is_inning_over == NaturalEnd(inning) \/ chase
        m1 == IF chase
              THEN [m EXCEPT !.winner_id = inning.batting_team_id,
                             !.status = COMPLETED]
              ELSE m
        m2 == IF is_inning_over /\ ~is_first_inning /\ m1.winner_id = None
              THEN [m1 EXCEPT
                      !.winner_id = FinalWinner(inning, first_inning_score, @),
                      !.status = COMPLETED]
              ELSE m1
    IN  [inning |-> [inning EXCEPT !.is_completed = is_inning_over \/ @],
         match |-> m2]

\* crud.record_delivery as one transaction: [db, ret].
RecordDelivery(db, match_id, delivery) ==
    IF DeliveryRejected(db, match_id, delivery)
    THEN [db |-> db, ret |-> "None"]
    ELSE LET id == delivery.inning_id
             scored == ApplyScore(db.innings[id], delivery)
             mine == MatchInnings(db, db.innings[id].match_id)
             all_innings == [i \in mine |->
                               IF i = id THEN scored ELSE db.innings[i]]
             ev == CompletionEvaluator(id, scored, MarkLive(db.match),
                                       all_innings)
         IN  [db |-> [match |-> ev.match,
                      innings |-> [db.innings EXCEPT ![id] = ev.inning],
                      deliveries |-> [db.deliveries EXCEPT ![id] = @ + 1]],
              ret |-> "Delivery"]

\* main.record_delivery: 400 when crud.record_delivery returns None, else the
\* match read back.
RecordDeliveryEndpoint(db, match_id, delivery) ==
    LET r == RecordDelivery(db, match_id, delivery)
    IN  IF r.ret = "None"
        THEN [db |-> r.db, ret |-> "HTTP 400"]
        ELSE [db |-> r.db, ret |-> "Match"]

\* ------------------------------------------------- the scorer's inputs
\* A scorer either sends any delivery against any inning, in any order
\* (in_order = FALSE), or sends legal deliveries only and none against
\* innings #2 before innings #1 is completed; wicket_every_ball[k] then tells
\* whether every ball of innings #k takes a wicket (a collapse) or none does.
ScoringModes ==
    {[in_order |-> FALSE, wicket_every_ball |-> <<FALSE, FALSE>>]}
    \cup {[in_order |-> TRUE, wicket_every_ball |-> <<a, b>>] : a, b \in BOOLEAN}

\* Legal deliveries an inning has received, as its counters tell.
LegalBalls(inning) == BallsPerOver * inning.overs_bowled + inning.balls_bowled

\* The database stays within the bounds of the model.
WithinBounds(db, mode) ==
    \A i \in DOMAIN db.innings :
        /\ db.innings[i].total_runs <= MaxRuns
        /\ ~mode.in_order => LegalBalls(db.innings[i]) <= MaxBalls

\* What a scorer of the given mode sends.
ScorerSends(db, mode, match_id, delivery) ==
    mode.in_order =>
        LET mine == MatchInnings(db, TheMatch)
            on_first == (delivery.inning_id = MinId(mine))
        IN  /\ match_id = TheMatch
            /\ delivery.inning_id \in mine
            /\ on_first \/ db.innings[MinId(mine)].is_completed
            /\ ~delivery.is_extra
            /\ delivery.is_wicket =
                 mode.wicket_every_ball[IF on_first THEN 1 ELSE 2]

\* ------------------------------------------------- request handlers
\* database.get_db gives every request a session of its own; FastAPI runs the
\* endpoints on worker threads, so two requests may be in flight together.
Handlers == {1, 2}

NoToss == [toss_winner_id |-> None, decision |-> "None"]
NoDelivery ==
    [inning_id |-> None, runs_scored |-> 0, is_wicket |-> FALSE,
     is_extra |-> FALSE]

\* A session with nothing loaded.
IdleSession ==
    [pc |-> "idle", toss_data |-> NoToss, delivery |-> NoDelivery,
     loaded_inning |-> <<>>, inning |-> <<>>, loaded_match |-> <<>>,
     m |-> <<>>]

\* ------------------------------------------------ sequential requests
Init ==
    /\ match = NewMatch
    /\ innings = <<>>
    /\ deliveries = <<>>
    /\ response = [op |-> "none", ret |-> "none"]
    /\ scoring \in ScoringModes
    /\ sessions = [h \in Handlers |-> IdleSession]
    /\ requests = <<>>
    /\ delivery_log = <<>>

\* POST /matches/{match_id}/toss
Toss(match_id, toss_data) ==
    LET r == RecordTossEndpoint(DB, match_id, toss_data)
    IN  /\ match' = r.db.match
        /\ innings' = r.db.innings
        /\ deliveries' = r.db.deliveries
        /\ response' = [op |-> "toss", ret |-> r.ret]
        /\ UNCHANGED <<scoring, sessions, requests, delivery_log>>

\* POST /matches/{match_id}/score
Score(match_id, delivery) ==
    LET r == RecordDeliveryEndpoint(DB, match_id, delivery)
    IN  /\ ScorerSends(DB, scoring, match_id, delivery)
        /\ WithinBounds(r.db, scoring)
        /\ match' = r.db.match
        /\ innings' = r.db.innings
        /\ deliveries' = r.db.deliveries
        /\ response' = [op |-> "score", ret |-> r.ret]
        /\ UNCHANGED <<scoring, sessions, requests, delivery_log>>

Next ==
    \/ \E toss_data \in TossData : Toss(TheMatch, toss_data)
    \/ \E match_id \in MatchIds, delivery \in DeliveryCreate :
          Score(match_id, delivery)

Spec == Init /\ [][Next]_vars

\* ------------------------------------- requests with any integer of runs
\* schemas.DeliveryCreate declares runs_scored: int and nothing narrower, so
\* the endpoint takes a negative number of runs as it takes any other.  No
\* wicket falls in these requests.
AnyRunsDeliveryCreate ==
    [inning_id : InningIds, runs_scored : -1 .. 1, is_wicket : {FALSE},
     is_extra : BOOLEAN]

\* The any-order scorer only.
InitAnyOrder == Init /\ ~scoring.in_order

\* POST /matches/{match_id}/score; no inning goes below -MaxRuns or over
\* MaxBalls + MaxRuns deliveries.
ScoreAnyRuns(match_id, delivery) ==
    /\ Score(match_id, delivery)
    /\ \A i \in DOMAIN innings' :
          /\ innings'[i].total_runs >= -MaxRuns
          /\ deliveries'[i] <= MaxBalls + MaxRuns

NextAnyRuns ==
    \/ \E toss_data \in TossData : Toss(TheMatch, toss_data)
    \/ \E match_id \in MatchIds, delivery \in AnyRunsDeliveryCreate :
          ScoreAnyRuns(match_id, delivery)

SpecAnyRuns == InitAnyOrder /\ [][NextAnyRuns]_vars

\* ------------------------------------------- the crud functions, called
\* directly: what crud.update_match_toss and crud.record_delivery do for a
\* caller other than the endpoints of main.py, which passes them its inputs
\* unscreened.
TossCore(match_id, toss_data) ==
    LET r == UpdateMatchToss(DB, match_id, toss_data)
    IN  /\ match' = r.db.match
        /\ innings' = r.db.innings
        /\ deliveries' = r.db.deliveries
        /\ response' = [op |-> "toss", ret |-> r.ret]
        /\ UNCHANGED <<scoring, sessions, requests, delivery_log>>

ScoreCore(match_id, delivery) ==
    LET r == RecordDelivery(DB, match_id, delivery)
    IN  /\ ScorerSends(DB, scoring, match_id, delivery)
        /\ WithinBounds(r.db, scoring)
        /\ match' = r.db.match
        /\ innings' = r.db.innings
        /\ deliveries' = r.db.deliveries
        /\ response' = [op |-> "score", ret |-> r.ret]
        /\ UNCHANGED <<scoring, sessions, requests, delivery_log>>

NextCore ==
    \/ \E toss_data \in TossData : TossCore(TheMatch, toss_data)
    \/ \E match_id \in MatchIds, delivery \in DeliveryCreate :
          ScoreCore(match_id, delivery)

SpecCore == InitAnyOrder /\ [][NextCore]_vars

\* ----------------------------------------- requests, the log kept row by row
\* Lines 120-128: the Delivery row of a request (the players left out).
DeliveryRow(delivery) ==
    [inning_id |-> delivery.inning_id, runs_scored |-> delivery.runs_scored,
     is_extra |-> delivery.is_extra, is_wicket |-> delivery.is_wicket]

\* POST /matches/{match_id}/score with the row of line 129 kept in
\* delivery_log; at most MaxRequests rows are logged.
ScoreLogged(match_id, delivery) ==
    LET r == RecordDeliveryEndpoint(DB, match_id, delivery)
    IN  /\ WithinBounds(r.db, scoring)
        /\ match' = r.db.match
        /\ innings' = r.db.innings
        /\ deliveries' = r.db.deliveries
        /\ response' = [op |-> "score", ret |-> r.ret]
        /\ delivery_log' = IF r.ret = "Match"
                           THEN Append(delivery_log, DeliveryRow(delivery))
                           ELSE delivery_log
        /\ Len(delivery_log') <= MaxRequests
        /\ UNCHANGED <<scoring, sessions, requests>>

\* Where the teams are not told apart one toss stands for all.
OneTossData == {[toss_winner_id |-> Team1, decision |-> BAT]}

NextLog ==
    \/ \E toss_data \in OneTossData : Toss(TheMatch, toss_data)
    \/ \E match_id \in MatchIds, delivery \in DeliveryCreate :
          ScoreLogged(match_id, delivery)

SpecLog == InitAnyOrder /\ [][NextLog]_vars

\* ------------------------------------ a scorer who keeps the match going
\* The in-order scorers only: legal deliveries, innings #1 first.
InitInOrder == Init /\ scoring.in_order

\* A delivery request that is accepted.
AcceptedDelivery ==
    \E delivery \in DeliveryCreate :
        Score(TheMatch, delivery) /\ response'.ret = "Match"

NextInOrder ==
    \/ \E toss_data \in OneTossData : Toss(TheMatch, toss_data)
    \/ \E match_id \in MatchIds, delivery \in DeliveryCreate :
          Score(match_id, delivery)

\* The scorer does not stop while a delivery can still be accepted.
SpecKeepScoring ==
    InitInOrder /\ [][NextInOrder]_vars /\ WF_vars(AcceptedDelivery)

\* ------------------------------------------------ concurrent requests
\* What two handlers are asked while they overlap: tosses by either team and
\* legal or extra deliveries against either inning.
ConcTossData == [toss_winner_id : {Team1, Team2}, decision : TossDecision]
ConcDeliveries ==
    [inning_id : {1, 2}, runs_scored : 0 .. 1, is_wicket : {FALSE},
     is_extra : BOOLEAN]

TossRequest(toss_data) ==
    [op |-> "toss", toss_data |-> toss_data, delivery |-> NoDelivery]
ScoreRequest(delivery) ==
    [op |-> "score", toss_data |-> NoToss, delivery |-> delivery]

\* The flush at db.commit(): an UPDATE sets the columns the session changed
\* on its object, and leaves the others as the row has them now.
WriteChanged(row, loaded, changed) ==
    [c \in DOMAIN row |-> IF changed[c] # loaded[c] THEN changed[c] ELSE row[c]]

\* main.record_toss line 139 to crud.update_match_toss line 77: the handler
\* reads the match and its innings; with innings present it answers at once.
BeginToss(h, toss_data) ==
    /\ sessions[h].pc = "idle"
    /\ Len(requests) < MaxRequests
    /\ requests' = Append(requests, TossRequest(toss_data))
    /\ IF TossRefused(DB, TheMatch)
       THEN /\ response' = [op |-> "toss", ret |-> "None"]
            /\ UNCHANGED sessions
       ELSE /\ sessions' = [sessions EXCEPT ![h] =
                              [IdleSession EXCEPT !.pc = "toss_checked",
                                                  !.toss_data = toss_data]]
            /\ UNCHANGED response
    /\ UNCHANGED <<match, innings, deliveries, scoring, delivery_log>>

\* crud.update_match_toss lines 79-100: the UPDATE of the match and the two
\* INSERTs reach the database at db.commit().
CommitToss(h) ==
    /\ sessions[h].pc = "toss_checked"
    /\ LET w == TossWrites(DB, TheMatch, sessions[h].toss_data, NextInningId(DB))
       IN  /\ match' = w.match
           /\ innings' = w.innings
           /\ deliveries' = w.deliveries
    /\ response' = [op |-> "toss", ret |-> "Match"]
    /\ sessions' = [sessions EXCEPT ![h] = IdleSession]
    /\ UNCHANGED <<scoring, requests, delivery_log>>

\* crud.record_delivery lines 110-149: the handler reads the inning and its
\* match, checks them, and scores the delivery on its own objects.
BeginScore(h, delivery) ==
    /\ sessions[h].pc = "idle"
    /\ Len(requests) < MaxRequests
    /\ requests' = Append(requests, ScoreRequest(delivery))
    /\ IF DeliveryRejected(DB, TheMatch, delivery)
       THEN /\ response' = [op |-> "score", ret |-> "HTTP 400"]
            /\ UNCHANGED sessions
       ELSE /\ sessions' = [sessions EXCEPT ![h] =
                  [IdleSession EXCEPT
                     !.pc = "scored",
                     !.delivery = delivery,
                     !.loaded_inning = innings[delivery.inning_id],
                     !.inning = ApplyScore(innings[delivery.inning_id], delivery),
                     !.loaded_match = match,
                     !.m = MarkLive(match)]]
            /\ UNCHANGED response
    /\ UNCHANGED <<match, innings, deliveries, scoring, delivery_log>>

\* Lines 153-177: match.innings is loaded now; the session's own inning keeps
\* the values the session gave it, its sibling comes as the database has it.
Evaluate(h) ==
    /\ sessions[h].pc = "scored"
    /\ LET id == sessions[h].delivery.inning_id
           mine == MatchInnings(DB, sessions[h].inning.match_id)
           all_innings == [i \in mine |->
                             IF i = id THEN sessions[h].inning ELSE innings[i]]
           ev == CompletionEvaluator(id, sessions[h].inning, sessions[h].m,
                                     all_innings)
       IN  sessions' = [sessions EXCEPT ![h].pc = "evaluated",
                                        ![h].inning = ev.inning,
                                        ![h].m = ev.match]
    /\ UNCHANGED
         <<match, innings, deliveries, response, scoring, requests,
           delivery_log>>

\* Line 180: the INSERT of the delivery and the UPDATEs of the inning and the
\* match reach the database.
CommitScore(h) ==
    /\ sessions[h].pc = "evaluated"
    /\ LET id == sessions[h].delivery.inning_id
       IN  /\ innings' = [innings EXCEPT ![id] =
                            WriteChanged(@, sessions[h].loaded_inning,
                                         sessions[h].inning)]
           /\ deliveries' = [deliveries EXCEPT ![id] = @ + 1]
    /\ match' = WriteChanged(match, sessions[h].loaded_match, sessions[h].m)
    /\ response' = [op |-> "score", ret |-> "Match"]
    /\ sessions' = [sessions EXCEPT ![h] = IdleSession]
    /\ UNCHANGED <<scoring, requests, delivery_log>>

InitConc ==
    /\ match = NewMatch
    /\ innings = <<>>
    /\ deliveries = <<>>
    /\ response = [op |-> "none", ret |-> "none"]
    /\ scoring = [in_order |-> FALSE, wicket_every_ball |-> <<FALSE, FALSE>>]
    /\ sessions = [h \in Handlers |-> IdleSession]
    /\ requests = <<>>
    /\ delivery_log = <<>>

NextConc ==
    \/ \E h \in Handlers, toss_data \in ConcTossData : BeginToss(h, toss_data)
    \/ \E h \in Handlers : CommitToss(h)
    \/ \E h \in Handlers, delivery \in ConcDeliveries : BeginScore(h, delivery)
    \/ \E h \in Handlers : Evaluate(h)
    \/ \E h \in Handlers : CommitScore(h)

SpecConc == InitConc /\ [][NextConc]_vars

\* ============================================================ claims
\* Innings #1 and #2 of the match: the lowest id, and the other one.
First == MinId(MatchInnings(DB, TheMatch))
Second == CHOOSE i \in MatchInnings(DB, TheMatch) : i # First
Tossed == Cardinality(MatchInnings(DB, TheMatch)) = 2

\* The step recorded a delivery against inning i.
Delivered(i) ==
    /\ i \in DOMAIN deliveries
    /\ deliveries'[i] = deliveries[i] + 1

DbUnchanged == UNCHANGED <<match, innings, deliveries>>

\* C1: a delivery recorded against the second inning that leaves its
\* total_runs above the first inning's completes that inning, gives the match
\* to its batting team and completes the match, whatever overs, balls and
\* wickets it has.
C1_ChaseShortCircuit ==
    [][(Tossed /\ Delivered(Second)
          /\ innings'[Second].total_runs > innings'[First].total_runs)
       => /\ innings'[Second].is_completed
          /\ match'.winner_id = innings'[Second].batting_team_id
          /\ match'.status = COMPLETED]_vars

\* A chase won in mid-over after innings #1 ran its 20 overs.
C1_Witness ==
    /\ Tossed
    /\ response = [op |-> "score", ret |-> "Match"]
    /\ innings[First].is_completed
    /\ innings[First].overs_bowled = OverLimit
    /\ innings[Second].total_runs > innings[First].total_runs
    /\ innings[Second].overs_bowled < OverLimit
    /\ innings[Second].wickets < WicketLimit
    /\ innings[Second].balls_bowled # 0
    /\ innings[Second].is_completed
    /\ match.status = COMPLETED
    /\ match.winner_id = innings[Second].batting_team_id

\* C2: the match is never Completed while innings #1 is not completed.
C2_NoCompletionBeforeFirstInningEnds ==
    (Tossed /\ match.status = COMPLETED) => innings[First].is_completed

\* C3: never have both innings received a delivery while neither is completed.
C3_AtMostOneActiveInning ==
    Tossed =>
      ~(/\ deliveries[First] > 0
        /\ deliveries[Second] > 0
        /\ ~innings[First].is_completed
        /\ ~innings[Second].is_completed)

\* C4: a delivery that ends the second inning at the wicket or over limit
\* with fewer runs than the first inning gives the match to the first
\* inning's batting team (the second inning's bowling team) and completes it.
C4_FirstInningWins ==
    [][(Tossed /\ Delivered(Second) /\ NaturalEnd(innings'[Second])
          /\ innings'[Second].total_runs < innings'[First].total_runs)
       => /\ match'.winner_id = innings'[First].batting_team_id
          /\ match'.winner_id = innings'[Second].bowling_team_id
          /\ match'.status = COMPLETED]_vars

\* Innings #1 all out, innings #2 out of overs and short of the score.
C4_Witness ==
    /\ Tossed
    /\ response = [op |-> "score", ret |-> "Match"]
    /\ innings[First].wickets = WicketLimit
    /\ innings[Second].overs_bowled = OverLimit
    /\ innings[Second].wickets < WicketLimit
    /\ innings[Second].total_runs < innings[First].total_runs
    /\ match.status = COMPLETED
    /\ match.winner_id = innings[First].batting_team_id

\* C5: a delivery that ends the second inning at the wicket or over limit
\* level with the first inning leaves the winner unset and completes the match.
C5_Tie ==
    [][(Tossed /\ Delivered(Second) /\ NaturalEnd(innings'[Second])
          /\ innings'[Second].total_runs = innings'[First].total_runs)
       => /\ match'.winner_id = None
          /\ match'.status = COMPLETED]_vars

\* Both innings all out on the same score, above zero.
C5_Witness ==
    /\ Tossed
    /\ response = [op |-> "score", ret |-> "Match"]
    /\ innings[First].is_completed
    /\ innings[Second].wickets = WicketLimit
    /\ innings[Second].total_runs = innings[First].total_runs
    /\ innings[First].total_runs > 0
    /\ match.status = COMPLETED
    /\ match.winner_id = None

\* C6: right after a successful toss by one of the two teams there are exactly
\* two innings, zeroed and not completed; innings #1 has the toss winner
\* batting on Bat and the toss loser on Field, the other team bowling, and
\* innings #2 has the two teams swapped.
C6_TossCreatesInnings ==
    response = [op |-> "toss", ret |-> "Match"] =>
      LET winner == match.toss_winner_id
          loser == IF winner = match.team1_id THEN match.team2_id
                   ELSE match.team1_id
          bat == IF match.toss_decision = BAT THEN winner ELSE loser
          bowl == IF match.toss_decision = BAT THEN loser ELSE winner
      IN  /\ winner \in {match.team1_id, match.team2_id}
          /\ match.toss_decision \in TossDecision
          /\ DOMAIN innings = MatchInnings(DB, TheMatch)
          /\ Cardinality(DOMAIN innings) = 2
          /\ innings[First] = NewInning(TheMatch, bat, bowl)
          /\ innings[Second] = NewInning(TheMatch, bowl, bat)
          /\ bat # bowl

\* The toss winner chose to field, so the toss loser bats in innings #1.
C6_Witness ==
    /\ response = [op |-> "toss", ret |-> "Match"]
    /\ match.toss_decision = FIELD
    /\ match.toss_winner_id = Team2
    /\ Tossed
    /\ innings[First].batting_team_id = Team1
    /\ innings[Second].batting_team_id = Team2

\* C7: a toss requested for a match that has innings does not succeed and
\* changes neither the match nor the innings nor the deliveries.
C7_SecondTossRefused ==
    [][(MatchInnings(DB, TheMatch) # {} /\ response'.op = "toss")
       => /\ response'.ret # "Match"
          /\ DbUnchanged]_vars

\* A toss refused by crud.update_match_toss after deliveries were recorded.
C7_Witness ==
    /\ response = [op |-> "toss", ret |-> "None"]
    /\ Tossed
    /\ deliveries[First] > 0
    /\ match.status = LIVE

\* The requests C8 is about: the inning is unknown, of another match or
\* completed, or the match is Completed.
C8_BadRequest(match_id, delivery) ==
    \/ delivery.inning_id \notin DOMAIN innings
    \/ innings[delivery.inning_id].match_id # match_id
    \/ innings[delivery.inning_id].is_completed
    \/ match.status = COMPLETED

\* C8: recording a delivery against a completed inning, an inning of another
\* match, an unknown inning or any inning of a Completed match is refused,
\* and a refused delivery changes no row.
C8_RejectedDeliveryMutatesNothing ==
    /\ [](\A match_id \in MatchIds, delivery \in DeliveryCreate :
            C8_BadRequest(match_id, delivery) =>
              RecordDeliveryEndpoint(DB, match_id, delivery)
                = [db |-> DB, ret |-> "HTTP 400"])
    /\ [][(response'.op = "score" /\ response'.ret = "HTTP 400")
          => DbUnchanged]_vars

\* A delivery refused while the match is Live and innings #1 is completed.
C8_Witness ==
    /\ response = [op |-> "score", ret |-> "HTTP 400"]
    /\ Tossed
    /\ innings[First].is_completed
    /\ ~innings[Second].is_completed
    /\ match.status = LIVE

\* The requests of `reqs` served one after the other, in the order `order`.
RECURSIVE Serial(_, _, _)
Serial(db, reqs, order) ==
    IF order = <<>> THEN db
    ELSE LET r == reqs[Head(order)]
             next == IF r.op = "toss"
                     THEN RecordTossEndpoint(db, TheMatch, r.toss_data).db
                     ELSE RecordDeliveryEndpoint(db, TheMatch, r.delivery).db
         IN  Serial(next, reqs, Tail(order))

\* The orders in which n requests can be served.
Orders(n) ==
    {o \in [1 .. n -> 1 .. n] : \A a, b \in 1 .. n : a # b => o[a] # o[b]}

FreshDB == [match |-> NewMatch, innings |-> <<>>, deliveries |-> <<>>]

Quiescent == \A h \in Handlers : sessions[h].pc = "idle"

\* C9: deliveries handled by concurrent handlers leave the innings, the match
\* status and the winner as some serial order of the requests would (runs
\* with a single toss request, so that only deliveries overlap).
C9_DeliveriesSerializable ==
    (/\ Quiescent
     /\ Cardinality({k \in 1 .. Len(requests) : requests[k].op = "toss"}) = 1)
    => \E o \in Orders(Len(requests)) : Serial(FreshDB, requests, o) = DB

\* C10: a match has no innings or exactly two, also with concurrent tosses.
C10_ZeroOrTwoInnings ==
    Cardinality(MatchInnings(DB, TheMatch)) \in {0, 2}

\* The inning a delivery is recorded against, as the delivery leaves it.
Scored(match_id, delivery) ==
    RecordDelivery(DB, match_id, delivery).db.innings[delivery.inning_id]

\* C11: balls_bowled of every inning is always in 0..5; a legal delivery that
\* is accepted advances balls_bowled by one, and from 5 it wraps to 0 and adds
\* exactly one to overs_bowled; an accepted extra leaves balls_bowled and
\* overs_bowled as they were.
C11_BallsAndOvers ==
    /\ \A i \in DOMAIN innings :
          innings[i].balls_bowled \in 0 .. BallsPerOver - 1
    /\ \A match_id \in MatchIds, delivery \in DeliveryCreate :
          ~DeliveryRejected(DB, match_id, delivery) =>
            LET before == innings[delivery.inning_id]
                after == Scored(match_id, delivery)
            IN  IF delivery.is_extra
                THEN /\ after.balls_bowled = before.balls_bowled
                     /\ after.overs_bowled = before.overs_bowled
                ELSE IF before.balls_bowled = BallsPerOver - 1
                THEN /\ after.balls_bowled = 0
                     /\ after.overs_bowled = before.overs_bowled + 1
                ELSE /\ after.balls_bowled = before.balls_bowled + 1
                     /\ after.overs_bowled = before.overs_bowled

\* The sixth legal ball of innings #1 has closed its first over.
C11_Witness ==
    /\ response = [op |-> "score", ret |-> "Match"]
    /\ Tossed
    /\ deliveries[First] = BallsPerOver
    /\ innings[First].overs_bowled = 1
    /\ innings[First].balls_bowled = 0

\* C12: every accepted delivery adds exactly runs_scored, and one more for an
\* extra, to the total_runs of the inning it is recorded against and leaves
\* the total_runs of the other inning alone; so the total_runs of an inning
\* never decreases from one delivery to the next and is never negative.
C12_RunsAccounting ==
    /\ [](/\ \A i \in DOMAIN innings : innings[i].total_runs >= 0
          /\ \A match_id \in MatchIds, delivery \in AnyRunsDeliveryCreate :
                ~DeliveryRejected(DB, match_id, delivery) =>
                  Scored(match_id, delivery).total_runs
                    = innings[delivery.inning_id].total_runs
                        + delivery.runs_scored
                        + (IF delivery.is_extra THEN 1 ELSE 0))
    /\ [][\A i \in DOMAIN innings :
            Delivered(i) =>
              /\ innings'[i].total_runs >= innings[i].total_runs
              /\ \A j \in DOMAIN innings \ {i} :
                    innings'[j].total_runs = innings[j].total_runs]_vars

\* C13: no inning ever has more than 10 wickets or more than 20 overs, and an
\* inning that has 10 wickets or 20 overs is completed.
C13_NaturalLimits ==
    \A i \in DOMAIN innings :
        /\ innings[i].wickets \in 0 .. WicketLimit
        /\ innings[i].overs_bowled \in 0 .. OverLimit
        /\ (innings[i].wickets = WicketLimit
              \/ innings[i].overs_bowled = OverLimit) => innings[i].is_completed

\* Innings #1 ran its 20 overs without a wicket and innings #2 was all out.
C13_Witness ==
    /\ Tossed
    /\ innings[First].overs_bowled = OverLimit
    /\ innings[First].wickets = 0
    /\ innings[First].is_completed
    /\ innings[Second].wickets = WicketLimit
    /\ innings[Second].overs_bowled < OverLimit
    /\ innings[Second].is_completed

\* C14: from one committed state to the next the status of the match stays
\* as it is, or goes from Scheduled to Live, or from Live to Completed; it
\* never goes back, never from Scheduled to Completed in one operation, and
\* Abandoned is never entered or left.
C14_StatusOnlyAdvances ==
    [][\/ match'.status = match.status
       \/ match.status = SCHEDULED /\ match'.status = LIVE
       \/ match.status = LIVE /\ match'.status = COMPLETED]_vars

\* C15: a toss request never changes the status of the match; the first
\* delivery accepted while the match is Scheduled takes it out of Scheduled;
\* and once any delivery is recorded the status is never Scheduled.
C15_LiveTrigger ==
    /\ []((\E i \in DOMAIN deliveries : deliveries[i] > 0)
            => match.status # SCHEDULED)
    /\ [][/\ response'.op = "toss" => match'.status = match.status
          /\ \A i \in DOMAIN innings :
                (Delivered(i) /\ match.status = SCHEDULED)
                  => match'.status # SCHEDULED]_vars

\* The first delivery of the match, against innings #1, has made it Live.
C15_Witness ==
    /\ response = [op |-> "score", ret |-> "Match"]
    /\ Tossed
    /\ deliveries[First] = 1
    /\ deliveries[Second] = 0
    /\ match.status = LIVE

\* The two teams of the match.
MatchTeams == {match.team1_id, match.team2_id}

\* C16: update_match_toss itself refuses a toss winner that is neither team
\* of the match, so a granted toss always names one of the two teams, and in
\* every state toss_winner_id, when set, is one of them and every inning of
\* the match has the two teams of the match as its batting and bowling team.
C16_CoreDefendsTossWinner ==
    /\ [](/\ match.toss_winner_id # None => match.toss_winner_id \in MatchTeams
          /\ \A i \in MatchInnings(DB, TheMatch) :
                {innings[i].batting_team_id, innings[i].bowling_team_id}
                  = MatchTeams)
    /\ [][(response'.op = "toss" /\ response'.ret = "Match")
            => match'.toss_winner_id \in MatchTeams]_vars

\* The preconditions of record_delivery that a request breaks in the current
\* state, and those of the toss.
C17_DeliveryViolations(match_id, delivery) ==
    LET id == delivery.inning_id
        known == id \in DOMAIN innings
    IN  {k \in {"InningNotFound", "InningMatchMismatch", "MatchCompleted",
                "InningCompleted"} :
           \/ k = "InningNotFound" /\ ~known
           \/ k = "InningMatchMismatch" /\ known
                /\ innings[id].match_id # match_id
           \/ k = "MatchCompleted" /\ known /\ match.status = COMPLETED
           \/ k = "InningCompleted" /\ known /\ innings[id].is_completed}

C17_TossViolations(toss_data) ==
    {k \in {"AlreadyTossed", "InvalidTossWinner"} :
       \/ k = "AlreadyTossed" /\ MatchInnings(DB, TheMatch) # {}
       \/ k = "InvalidTossWinner" /\ toss_data.toss_winner_id \notin MatchTeams}

\* C17: a request that breaks one precondition is told which: two delivery
\* requests that each break exactly one precondition, and not the same one,
\* get different outcomes, and so do two such toss requests.
C17_DistinctFailureKinds ==
    /\ \A m1, m2 \in MatchIds, d1, d2 \in DeliveryCreate :
          LET v1 == C17_DeliveryViolations(m1, d1)
              v2 == C17_DeliveryViolations(m2, d2)
          IN  (Cardinality(v1) = 1 /\ Cardinality(v2) = 1 /\ v1 # v2)
                => RecordDeliveryEndpoint(DB, m1, d1).ret
                     # RecordDeliveryEndpoint(DB, m2, d2).ret
    /\ \A t1, t2 \in TossData :
          LET v1 == C17_TossViolations(t1)
              v2 == C17_TossViolations(t2)
          IN  (Cardinality(v1) = 1 /\ Cardinality(v2) = 1 /\ v1 # v2)
                => RecordTossEndpoint(DB, TheMatch, t1).ret
                     # RecordTossEndpoint(DB, TheMatch, t2).ret

\* C18: whenever the match is Completed its winner is the batting team of
\* the inning with strictly more runs, and it has no winner exactly when the
\* two totals are equal; a match that is not Completed has no winner.
C18_WinnerAgreesWithTotals ==
    /\ match.winner_id # None => match.status = COMPLETED
    /\ match.status = COMPLETED =>
          /\ Tossed
          /\ LET runs1 == innings[First].total_runs
                 runs2 == innings[Second].total_runs
             IN  /\ runs1 > runs2 =>
                       match.winner_id = innings[First].batting_team_id
                 /\ runs2 > runs1 =>
                       match.winner_id = innings[Second].batting_team_id
                 /\ match.winner_id = None <=> runs1 = runs2

\* Innings #2 was all out behind innings #1, whose batting team has won.
C18_Witness ==
    /\ match.status = COMPLETED
    /\ Tossed
    /\ innings[Second].wickets = WicketLimit
    /\ innings[Second].total_runs < innings[First].total_runs
    /\ match.winner_id = innings[First].batting_team_id

\* C19: an accepted delivery against innings #1 never gives the match a
\* winner and never makes it Completed, even when it completes innings #1;
\* it changes that inning only, and of the match at most the status, from
\* Scheduled to Live; innings #2 is left as it was.
C19_FirstInningFrame ==
    [][(Tossed /\ Delivered(First)) =>
          /\ match' = [match EXCEPT !.status = LIVE]
          /\ match.status \in {SCHEDULED, LIVE}
          /\ match'.winner_id = None
          /\ innings'[Second] = innings[Second]
          /\ deliveries'[Second] = deliveries[Second]
          /\ DOMAIN innings' = DOMAIN innings]_vars

\* The tenth wicket of innings #1 has fallen before innings #2 has a ball.
C19_Witness ==
    /\ response = [op |-> "score", ret |-> "Match"]
    /\ Tossed
    /\ innings[First].wickets = WicketLimit
    /\ innings[First].is_completed
    /\ deliveries[Second] = 0
    /\ match.status = LIVE
    /\ match.winner_id = None

\* C20: once an inning is completed its counters, its flag and its deliveries
\* never change again, and once the match is Completed no toss or delivery
\* request changes the match, any inning or the delivery log.
C20_Finality ==
    [][/\ \A i \in DOMAIN innings :
            innings[i].is_completed =>
              /\ i \in DOMAIN innings'
              /\ innings'[i] = innings[i]
              /\ deliveries'[i] = deliveries[i]
       /\ match.status = COMPLETED => DbUnchanged]_vars

\* A delivery against the still open innings #1 of a Completed match has
\* been refused.
C20_Witness ==
    /\ response = [op |-> "score", ret |-> "HTTP 400"]
    /\ Tossed
    /\ match.status = COMPLETED
    /\ ~innings[First].is_completed
    /\ innings[Second].is_completed

\* The rows of the log that belong to inning i, as positions of the log.
RowsOf(i) == {k \in 1 .. Len(delivery_log) : delivery_log[k].inning_id = i}

\* Runs the rows at positions K of the log add up to, penalty runs included.
RECURSIVE LoggedRuns(_)
LoggedRuns(K) ==
    IF K = {} THEN 0
    ELSE LET k == CHOOSE x \in K : TRUE
         IN  delivery_log[k].runs_scored
               + (IF delivery_log[k].is_extra THEN 1 ELSE 0)
               + LoggedRuns(K \ {k})

BallsPerInning == BallsPerOver * OverLimit

\* C22: when legal deliveries keep being recorded, against innings #1 until
\* it is completed and against innings #2 after that, no inning takes more
\* than 120 of them, an inning that has taken 120 is completed, and the match
\* reaches Completed with no request but the deliveries.
C22_MatchEndsOnItsOwn ==
    /\ [](\A i \in DOMAIN innings :
            /\ deliveries[i] = LegalBalls(innings[i])
            /\ deliveries[i] <= BallsPerInning
            /\ deliveries[i] = BallsPerInning => innings[i].is_completed)
    /\ (Tossed ~> match.status = COMPLETED)

\* Both innings ran their 120 legal balls and the match is Completed.
C22_Witness ==
    /\ Tossed
    /\ deliveries[First] = BallsPerInning
    /\ deliveries[Second] = BallsPerInning
    /\ innings[First].is_completed
    /\ innings[Second].is_completed
    /\ match.status = COMPLETED

====
